---------------------------- MODULE Spec2Model ----------------------------
(***************************************************************************)
(* A model of synaptiks.touchpad: the device_property descriptor (typed    *)
(* get/set of one slot of a multi-slot input-device property, with unit    *)
(* conversion), the Touchpad catalog of bindings, touchpad discovery and   *)
(* the read-only views derived from 'Synaptics Capabilities'.              *)
(*                                                                         *)
(* Python floats are IEEE-754 binary64.  They are modelled exactly: a      *)
(* float is a sign, a 53-bit mantissa and a binary exponent, the mantissa  *)
(* a little-endian sequence of 15-bit limbs, so that every product of two  *)
(* limbs fits the model checker's integers.                                *)
(***************************************************************************)
EXTENDS Integers, Sequences, FiniteSets, TLC

(***************************************************************************)
(* Natural numbers of any size: <<>> is 0, a[1] the least significant limb, *)
(* the most significant limb never 0.                                      *)
(***************************************************************************)
LimbBits == 15
Base == 2 ^ LimbBits

Max(a, b) == IF a >= b THEN a ELSE b
Min(a, b) == IF a <= b THEN a ELSE b

RECURSIVE BigStrip(_)
BigStrip(a) ==
    IF a = << >> THEN << >>
    ELSE IF a[Len(a)] = 0 THEN BigStrip(SubSeq(a, 1, Len(a) - 1))
    ELSE a

RECURSIVE BigFromNat(_)
BigFromNat(n) ==
    IF n = 0 THEN << >> ELSE <<n % Base>> \o BigFromNat(n \div Base)

RECURSIVE BigToNat(_)
BigToNat(a) ==
    IF a = << >> THEN 0 ELSE a[1] + Base * BigToNat(Tail(a))

\* a * k + c, for 0 <= k, c < Base
RECURSIVE BigMulSmall(_, _, _)
BigMulSmall(a, k, c) ==
    IF a = << >> THEN (IF c = 0 THEN << >> ELSE <<c>>)
    ELSE LET t == a[1] * k + c
         IN  <<t % Base>> \o BigMulSmall(Tail(a), k, t \div Base)

\* a + b + c, for c in 0..1
RECURSIVE BigAddC(_, _, _)
BigAddC(a, b, c) ==
    IF a = << >> /\ b = << >> THEN (IF c = 0 THEN << >> ELSE <<c>>)
    ELSE LET x == IF a = << >> THEN 0 ELSE a[1]
             y == IF b = << >> THEN 0 ELSE b[1]
             t == x + y + c
         IN  <<t % Base>> \o BigAddC(IF a = << >> THEN << >> ELSE Tail(a),
                                     IF b = << >> THEN << >> ELSE Tail(b),
                                     t \div Base)

BigAdd(a, b) == BigAddC(a, b, 0)

RECURSIVE BigMul(_, _)
BigMul(a, b) ==
    IF a = << >> \/ b = << >> THEN << >>
    ELSE LET rest == BigMul(a, Tail(b))
         IN  BigStrip(BigAdd(BigMulSmall(a, b[1], 0),
                             IF rest = << >> THEN << >> ELSE <<0>> \o rest))

\* -1, 0 or 1 as a < b, a = b or a > b
RECURSIVE BigCmp(_, _)
BigCmp(a, b) ==
    IF Len(a) # Len(b) THEN (IF Len(a) < Len(b) THEN -1 ELSE 1)
    ELSE IF a = << >> THEN 0
    ELSE IF a[Len(a)] # b[Len(b)] THEN (IF a[Len(a)] < b[Len(b)] THEN -1 ELSE 1)
    ELSE BigCmp(BigStrip(SubSeq(a, 1, Len(a) - 1)), BigStrip(SubSeq(b, 1, Len(b) - 1)))

\* a - b - c, for a >= b + c and c in 0..1 (limbs not yet stripped)
RECURSIVE BigSubC(_, _, _)
BigSubC(a, b, c) ==
    IF a = << >> THEN << >>
    ELSE LET y == IF b = << >> THEN 0 ELSE b[1]
             t == a[1] - y - c
         IN  <<(t + Base) % Base>>
               \o BigSubC(Tail(a), IF b = << >> THEN << >> ELSE Tail(b),
                          IF t < 0 THEN 1 ELSE 0)

BigSub(a, b) == BigStrip(BigSubC(a, b, 0))

\* quotient and remainder of a by k, for 0 < k <= Base
RECURSIVE BigDivRem(_, _)
BigDivRem(a, k) ==
    IF a = << >> THEN [q |-> << >>, r |-> 0]
    ELSE LET hi == BigDivRem(Tail(a), k)
             t  == Base * hi.r + a[1]
         IN  [q |-> BigStrip(<<t \div k>> \o hi.q), r |-> t % k]

RECURSIVE NatBitLen(_)
NatBitLen(n) == IF n = 0 THEN 0 ELSE 1 + NatBitLen(n \div 2)

BigBitLen(a) ==
    IF a = << >> THEN 0 ELSE LimbBits * (Len(a) - 1) + NatBitLen(a[Len(a)])

BigShiftLeft(a, s) ==
    IF a = << >> THEN << >>
    ELSE [i \in 1..(s \div LimbBits) |-> 0] \o BigMulSmall(a, 2 ^ (s % LimbBits), 0)

\* floor(a / 2^s), and whether any of the bits shifted out was 1
BigShiftRight(a, s) ==
    LET d  == Min(s \div LimbBits, Len(a))
        dr == BigDivRem(SubSeq(a, d + 1, Len(a)), 2 ^ (s % LimbBits))
    IN  [q |-> dr.q, nz |-> dr.r # 0 \/ \E i \in 1..d : a[i] # 0]

BigOdd(a) == a # << >> /\ a[1] % 2 = 1

(***************************************************************************)
(* Python floats.  A float is [s, m, e] and stands for s * m * 2^e, with   *)
(* s in {1, -1} and m of exactly Precision bits; zero is Zero.  Every      *)
(* float has one representation, so equal floats are equal records.        *)
(* Exponent overflow and subnormals are out of reach of the values used.   *)
(***************************************************************************)
Precision == 53

Zero == [s |-> 1, m |-> << >>, e |-> 0]

\* The float nearest to s * m * 2^e (ties to even); sticky tells that the
\* exact value lies strictly above m * 2^e and below (m + 1) * 2^e.
FloatRound(s, m, e, sticky) ==
    LET bl == BigBitLen(m)
    IN  IF m = << >> THEN Zero
        ELSE IF bl <= Precision
        THEN [s |-> s, m |-> BigShiftLeft(m, Precision - bl), e |-> e - (Precision - bl)]
        ELSE LET sh    == bl - Precision
                 g     == BigShiftRight(m, sh - 1)
                 guard == BigOdd(g.q)
                 q     == BigShiftRight(g.q, 1).q
                 up    == guard /\ (g.nz \/ sticky \/ BigOdd(q))
                 r     == IF up THEN BigAdd(q, <<1>>) ELSE q
             IN  IF BigBitLen(r) > Precision
                 THEN [s |-> s, m |-> BigShiftRight(r, 1).q, e |-> e + sh + 1]
                 ELSE [s |-> s, m |-> r, e |-> e + sh]

Sign(n) == IF n < 0 THEN -1 ELSE 1
Abs(n) == IF n < 0 THEN -n ELSE n

\* float(n)
FloatFromInt(n) == FloatRound(Sign(n), BigFromNat(Abs(n)), 0, FALSE)

\* x * y on floats
FloatMul(x, y) == FloatRound(x.s * y.s, BigMul(x.m, y.m), x.e + y.e, FALSE)

\* n / d on integers under true division, 0 < d < Base: the quotient is taken
\* with at least two bits more than a float holds, then rounded once.
GuardShift == 5 * LimbBits
IntTrueDiv(n, d) ==
    LET dr == BigDivRem(BigShiftLeft(BigFromNat(Abs(n)), GuardShift), d)
    IN  FloatRound(Sign(n), dr.q, -GuardShift, dr.r # 0)

\* int(x): the integer part of x, truncated towards zero
FloatTrunc(x) ==
    IF x.m = << >> THEN 0
    ELSE IF x.e >= 0 THEN x.s * BigToNat(BigShiftLeft(x.m, x.e))
    ELSE x.s * BigToNat(BigShiftRight(x.m, -x.e).q)

\* |x - y| <= 2^-bits * max(|x|, |y|)
FloatClose(x, y, bits) ==
    LET e0 == IF x.m = << >> THEN y.e ELSE IF y.m = << >> THEN x.e ELSE Min(x.e, y.e)
        X  == BigShiftLeft(x.m, Max(x.e - e0, 0))
        Y  == BigShiftLeft(y.m, Max(y.e - e0, 0))
        hi == IF BigCmp(X, Y) >= 0 THEN X ELSE Y
        lo == IF BigCmp(X, Y) >= 0 THEN Y ELSE X
        d  == IF x.s = y.s \/ lo = << >> THEN BigSub(hi, lo) ELSE BigAdd(hi, lo)
    IN  BigCmp(BigShiftLeft(d, bits), hi) <= 0

(***************************************************************************)
(* The outcome of a call: a returned value or a raised exception.          *)
(***************************************************************************)
Return(val) == [kind |-> "return", val |-> val]
Raise(exc)  == [kind |-> "raise", exc |-> exc]
NoOutcome   == [kind |-> "none"]

(***************************************************************************)
(* device_property: construction and the two conversion hooks.             *)
(***************************************************************************)
PROPERTY_TYPES == {"int", "byte", "float", "bool"}

\* A faulty variant: a constructor that checks nothing
device_property_init_unchecked(property_name, property_type, item) ==
    Return([property_name |-> property_name, property_type |-> property_type,
            item |-> item, convert |-> "default"])

device_property_init(property_name, property_type, item) ==
    IF property_type \notin PROPERTY_TYPES
    THEN Raise("ValueError")
    ELSE Return([property_name |-> property_name, property_type |-> property_type,
                 item |-> item, convert |-> "default"])

\* functools.partial(device_property, name, type) applied to an item
device_property(property_name, property_type, item) ==
    device_property_init(property_name, property_type, item).val

\* math.radians and math.degrees multiply by the floats nearest to pi/180
\* and 180/pi
degToRad == [s |-> 1, m |-> <<7481, 17573, 32026, 142>>, e |-> -58]
radToDeg == [s |-> 1, m |-> <<16888, 13511, 6000, 229>>, e |-> -47]
math_radians(x) == FloatMul(x, degToRad)
math_degrees(x) == FloatMul(x, radToDeg)

MillisPerSecond == 1000

convert_from_property(self, value) ==
    CASE self.convert = "locked_drags_timeout" -> IntTrueDiv(value, MillisPerSecond)
      [] self.convert = "circular_scrolling_distance" -> math_degrees(value)
      [] OTHER -> value

convert_to_property(self, value) ==
    CASE self.convert = "locked_drags_timeout" ->
             FloatTrunc(FloatMul(FloatFromInt(MillisPerSecond), value))
      [] self.convert = "circular_scrolling_distance" -> math_radians(value)
      [] OTHER -> value

(***************************************************************************)
(* The Touchpad catalog of bindings.                                       *)
(***************************************************************************)
off == device_property("Synaptics Off", "byte", 0)

minimum_speed       == device_property("Synaptics Move Speed", "float", 0)
maximum_speed       == device_property("Synaptics Move Speed", "float", 1)
acceleration_factor == device_property("Synaptics Move Speed", "float", 2)

rt_tap_action == device_property("Synaptics Tap Action", "byte", 0)
rb_tap_action == device_property("Synaptics Tap Action", "byte", 1)
lt_tap_action == device_property("Synaptics Tap Action", "byte", 2)
lb_tap_action == device_property("Synaptics Tap Action", "byte", 3)
f1_tap_action == device_property("Synaptics Tap Action", "byte", 4)
f2_tap_action == device_property("Synaptics Tap Action", "byte", 5)
f3_tap_action == device_property("Synaptics Tap Action", "byte", 6)

tap_and_drag_gesture == device_property("Synaptics Gestures", "bool", 0)

locked_drags == device_property("Synaptics Locked Drags", "bool", 0)

locked_drags_timeout ==
    [device_property("Synaptics Locked Drags Timeout", "int", 0)
        EXCEPT !.convert = "locked_drags_timeout"]

vertical_edge_scrolling   == device_property("Synaptics Edge Scrolling", "bool", 0)
horizontal_edge_scrolling == device_property("Synaptics Edge Scrolling", "bool", 1)
corner_coasting           == device_property("Synaptics Edge Scrolling", "bool", 2)

vertical_scrolling_distance   == device_property("Synaptics Scrolling Distance", "int", 0)
horizontal_scrolling_distance == device_property("Synaptics Scrolling Distance", "int", 1)

coasting_speed == device_property("Synaptics Coasting Speed", "float", 0)

vertical_two_finger_scrolling ==
    device_property("Synaptics Two-Finger Scrolling", "bool", 0)
horizontal_two_finger_scrolling ==
    device_property("Synaptics Two-Finger Scrolling", "bool", 1)

circular_scrolling == device_property("Synaptics Circular Scrolling", "bool", 0)

circular_scrolling_trigger ==
    device_property("Synaptics Circular Scrolling Trigger", "byte", 0)

circular_scrolling_distance ==
    [device_property("Synaptics Circular Scrolling Distance", "float", 0)
        EXCEPT !.convert = "circular_scrolling_distance"]

Touchpad ==
    { off, minimum_speed, maximum_speed, acceleration_factor,
      rt_tap_action, rb_tap_action, lt_tap_action, lb_tap_action,
      f1_tap_action, f2_tap_action, f3_tap_action,
      tap_and_drag_gesture, locked_drags, locked_drags_timeout,
      vertical_edge_scrolling, horizontal_edge_scrolling, corner_coasting,
      vertical_scrolling_distance, horizontal_scrolling_distance,
      coasting_speed, vertical_two_finger_scrolling,
      horizontal_two_finger_scrolling, circular_scrolling,
      circular_scrolling_trigger, circular_scrolling_distance }

CapabilitiesName == "Synaptics Capabilities"
CapabilitiesLen == 7

(***************************************************************************)
(* The input device, as far as the descriptor uses it: obj[name] gives the *)
(* whole value sequence of a property, obj.set_<type>(name, values) writes *)
(* a whole sequence.  Every request is logged.                             *)
(***************************************************************************)
GetRequest(name) == [req |-> "getitem", name |-> name]

\* A faulty variant: every write goes through set_int
SetRequestInt(type, name, values) ==
    [req |-> "set_int", name |-> name, values |-> values]

SetRequest(type, name, values) ==
    [req |-> CASE type = "int" -> "set_int" [] type = "byte" -> "set_byte"
               [] type = "float" -> "set_float" [] type = "bool" -> "set_bool",
     name |-> name, values |-> values]

getitem(obj, name) == obj[name]
set_property(obj, name, values) == [obj EXCEPT ![name] = values]

\* a Python bool stored in a value sequence is the integer 1 or 0
PyValue(self, value) ==
    IF self.property_type = "bool" /\ self.convert = "default"
    THEN (IF value THEN 1 ELSE 0) ELSE value

RawZero(type) == IF type = "float" THEN Zero ELSE 0

(***************************************************************************)
(* device_property.__get__ and __set__ on a device obj.  Each gives the    *)
(* device afterwards, the requests made and the outcome.                   *)
(***************************************************************************)
device_property_get(self, obj) ==
    LET values == getitem(obj, self.property_name)
    IN  [obj |-> obj, calls |-> <<GetRequest(self.property_name)>>,
         outcome |-> IF self.item >= Len(values) THEN Raise("IndexError")
                     ELSE IF self.property_type = "bool"
                     THEN Return(convert_from_property(self, values[self.item + 1] # 0))
                     ELSE Return(convert_from_property(self, values[self.item + 1]))]

\* The first half of __set__: the fetch of the whole sequence and the
\* assignment to the slot, in a sequence local to the caller.
\* A faulty variant: the sequence written is built afresh, 0 in every other slot
set_fetch_synthesized(self, obj, value) ==
    LET values == getitem(obj, self.property_name)
        raw    == PyValue(self, convert_to_property(self, value))
    IN  [calls |-> <<GetRequest(self.property_name)>>,
         outcome |-> IF self.item >= Len(values) THEN Raise("IndexError") ELSE NoOutcome,
         values |-> [i \in 1..Len(values) |->
                        IF i = self.item + 1 THEN raw ELSE RawZero(self.property_type)]]

\* A faulty variant: an index past the end is clamped to the last slot
set_fetch_clamped(self, obj, value) ==
    LET values == getitem(obj, self.property_name)
        raw    == PyValue(self, convert_to_property(self, value))
        at     == Min(self.item + 1, Len(values))
    IN  [calls |-> <<GetRequest(self.property_name)>>,
         outcome |-> IF values = << >> THEN Raise("IndexError") ELSE NoOutcome,
         values |-> IF values = << >> THEN values ELSE [values EXCEPT ![at] = raw]]

set_fetch(self, obj, value) ==
    LET values == getitem(obj, self.property_name)
        raw    == PyValue(self, convert_to_property(self, value))
    IN  [calls |-> <<GetRequest(self.property_name)>>,
         outcome |-> IF self.item >= Len(values) THEN Raise("IndexError") ELSE NoOutcome,
         values |-> IF self.item >= Len(values) THEN values
                    ELSE [values EXCEPT ![self.item + 1] = raw]]

\* The second half of __set__: the write of the whole local sequence.
\* A faulty variant: only the binding's own slot is written, into the sequence
\* the device holds at the time of the write
set_write_slot(self, obj, values) ==
    LET merged == [getitem(obj, self.property_name)
                      EXCEPT ![self.item + 1] = values[self.item + 1]]
    IN  [obj |-> set_property(obj, self.property_name, merged),
         calls |-> <<SetRequest(self.property_type, self.property_name, merged)>>,
         outcome |-> Return("None")]

set_write(self, obj, values) ==
    [obj |-> set_property(obj, self.property_name, values),
     calls |-> <<SetRequest(self.property_type, self.property_name, values)>>,
     outcome |-> Return("None")]

device_property_set(self, obj, value) ==
    LET f == set_fetch(self, obj, value)
        w == set_write(self, obj, f.values)
    IN  IF f.outcome.kind = "raise"
        THEN [obj |-> obj, calls |-> f.calls, outcome |-> f.outcome]
        ELSE [obj |-> w.obj, calls |-> f.calls \o w.calls, outcome |-> w.outcome]

(***************************************************************************)
(* The devices and the values the model draws from.                        *)
(***************************************************************************)
PropertyNames == {b.property_name : b \in Touchpad} \cup {CapabilitiesName}

PropertyType(name) ==
    IF name = CapabilitiesName THEN "int"
    ELSE (CHOOSE b \in Touchpad : b.property_name = name).property_type

\* the number of slots the catalog binds
DeclaredLen(name) ==
    IF name = CapabilitiesName THEN CapabilitiesLen
    ELSE 1 + (CHOOSE i \in {b.item : b \in Touchpad} :
                /\ \E b \in Touchpad : b.property_name = name /\ b.item = i
                /\ \A b \in Touchpad : b.property_name = name => b.item <= i)

MaxShortfall == 1
Layouts == (-MaxShortfall)..1
Fills == {0, 1}

RawFill(name, k) ==
    CASE name = CapabilitiesName -> k % 2
      [] PropertyType(name) = "bool" -> k % 2
      [] PropertyType(name) = "byte" -> k % 3
      [] PropertyType(name) = "int" -> 2500 * k
      [] PropertyType(name) = "float" -> IntTrueDiv(2 * k, 5)

\* a device whose driver reports, for every property, layout slots more (or,
\* if negative, fewer) than the catalog binds; fill varies the values held
Device(layout, fill) ==
    [name \in PropertyNames |->
        [i \in 1..Max(0, DeclaredLen(name) + layout) |-> RawFill(name, fill + i - 1)]]

WholeMillis == {0, 2500, 1001}
\* the floats nearest to k/1000 seconds
TimeoutInputs == {IntTrueDiv(k, MillisPerSecond) : k \in WholeMillis}
DegreeInputs == {FloatFromInt(90), FloatFromInt(3)}

DomainInputs(self) ==
    CASE self.convert = "locked_drags_timeout" -> TimeoutInputs
      [] self.convert = "circular_scrolling_distance" -> DegreeInputs
      [] self.property_type = "bool" -> BOOLEAN
      [] self.property_type = "byte" -> {1, 2}
      [] self.property_type = "int" -> {-25, 100}
      [] self.property_type = "float" -> {Zero, IntTrueDiv(7, 10)}

(***************************************************************************)
(* State.                                                                  *)
(*   display : the input devices registered on the display, in order       *)
(*   dev     : the properties of the touchpad in use                       *)
(*   before  : dev as it was when the last operation began                 *)
(*   op      : the last operation                                          *)
(*   outcome : what it returned or raised                                  *)
(*   calls   : the requests it made to the device, in order                *)
(*   nsets   : the number of sets made so far                              *)
(*   pend    : per thread, the set it is in the middle of                  *)
(***************************************************************************)
VARIABLES display, dev, before, op, outcome, calls, nsets, pend

vars == <<display, dev, before, op, outcome, calls, nsets, pend>>

Threads == {"t1", "t2"}
Idle == [pc |-> "idle"]

MaxSets == 1

Init ==
    /\ display = << >>
    /\ \E layout \in Layouts, fill \in Fills :
          dev = Device(layout, fill)
    /\ before = dev
    /\ op = [kind |-> "none"]
    /\ outcome = NoOutcome
    /\ calls = << >>
    /\ nsets = 0
    /\ pend = [t \in Threads |-> Idle]

Get(self) ==
    LET r == device_property_get(self, dev)
    IN  /\ op' = [kind |-> "get", self |-> self]
        /\ before' = dev
        /\ dev' = r.obj
        /\ calls' = r.calls
        /\ outcome' = r.outcome
        /\ UNCHANGED <<display, nsets, pend>>

Set(self, value) ==
    LET r == device_property_set(self, dev, value)
    IN  /\ nsets < MaxSets
        /\ op' = [kind |-> "set", self |-> self, value |-> value]
        /\ before' = dev
        /\ dev' = r.obj
        /\ calls' = r.calls
        /\ outcome' = r.outcome
        /\ nsets' = nsets + 1
        /\ UNCHANGED <<display, pend>>

Next ==
    \/ \E self \in Touchpad : Get(self)
    \/ \E self \in Touchpad : \E value \in DomainInputs(self) : Set(self, value)

Spec == Init /\ [][Next]_vars

(***************************************************************************)
(* Claims about get and set, one operation after another.                  *)
(***************************************************************************)
SetDone == op.kind = "set" /\ outcome.kind = "return"
GetDone == op.kind = "get" /\ outcome.kind = "return"
Slots(obj, self) == obj[self.property_name]
InRange(self, obj) == self.item < Len(Slots(obj, self))

\* C1: a set of one slot leaves every other slot of the same property with
\* the raw value it held before the set, and the property as long as it was.
C1_SiblingSlotsUnchanged ==
    SetDone =>
        /\ Len(Slots(dev, op.self)) = Len(Slots(before, op.self))
        /\ \A i \in 1..Len(Slots(before, op.self)) :
              i # op.self.item + 1 => Slots(dev, op.self)[i] = Slots(before, op.self)[i]

\* a set that changed its own slot, on a property where another binding's
\* slot is present
C1_Witness ==
    /\ SetDone
    /\ Slots(dev, op.self)[op.self.item + 1] # Slots(before, op.self)[op.self.item + 1]
    /\ \E B \in Touchpad :
          /\ B.property_name = op.self.property_name
          /\ B.item # op.self.item
          /\ InRange(B, before)

ToleranceBits == 30

\* whether a get's result is the value set: equal, or for a float within a
\* relative error of 2^-ToleranceBits
FloatDomain(self) == self.property_type = "float" \/ self.convert = "locked_drags_timeout"
SameValue(self, got, value) ==
    IF FloatDomain(self) THEN FloatClose(got, value, ToleranceBits) ELSE got = value

\* C2: after a set of v on a binding, a get on the same binding returns v
\* (for a float, up to the tolerance), for every binding of the catalog.
C2_RoundTrip ==
    SetDone =>
        LET got == device_property_get(op.self, dev).outcome
        IN  got.kind = "return" /\ SameValue(op.self, got.val, op.value)

\* C4: a set of locked_drags_timeout to k/1000 seconds, k a whole number of
\* milliseconds, leaves raw slot 0 holding k; a get of raw r returns r/1000.
C4_TimeoutMillis ==
    /\ (SetDone /\ op.self = locked_drags_timeout) =>
          \A k \in WholeMillis :
              op.value = IntTrueDiv(k, MillisPerSecond) => Slots(dev, op.self)[1] = k
    /\ (GetDone /\ op.self = locked_drags_timeout) =>
          outcome.val = IntTrueDiv(Slots(before, op.self)[1], MillisPerSecond)

\* C8: a get or set whose slot index is not below the length of the sequence
\* the device reports raises IndexError after the one fetch, writes nothing
\* and leaves the device as it was.
C8_SlotIndexOutOfRange ==
    (op.kind \in {"get", "set"} /\ ~InRange(op.self, before)) =>
        /\ outcome = Raise("IndexError")
        /\ calls = <<GetRequest(op.self.property_name)>>
        /\ dev = before

C8_Witness ==
    /\ op.kind = "set"
    /\ ~InRange(op.self, before)
    /\ Slots(before, op.self) # << >>
    /\ outcome = Raise("IndexError")

\* C9: a successful set makes exactly two requests, first the fetch of its
\* property and then one write of that property through the setter of its
\* wire type, and no other property changes.
C9_FetchThenWrite ==
    SetDone =>
        /\ Len(calls) = 2
        /\ calls[1] = GetRequest(op.self.property_name)
        /\ calls[2].name = op.self.property_name
        /\ calls[2].values = Slots(dev, op.self)
        /\ (op.self.property_type = "int" => calls[2].req = "set_int")
        /\ (op.self.property_type = "byte" => calls[2].req = "set_byte")
        /\ (op.self.property_type = "float" => calls[2].req = "set_float")
        /\ (op.self.property_type = "bool" => calls[2].req = "set_bool")
        /\ \A name \in PropertyNames :
              name # op.self.property_name => dev[name] = before[name]

C9_Witness ==
    /\ SetDone
    /\ op.self.property_type = "float"
    /\ Slots(dev, op.self) # Slots(before, op.self)

(***************************************************************************)
(* Two callers setting at once.  A set is two requests to the device, the  *)
(* fetch and the write, and the requests of two callers may interleave.    *)
(* Here calls logs the requests of both callers, each with its caller, and *)
(* before stays the device as it was before either set.                    *)
(***************************************************************************)
Fetch(t, self, value) ==
    LET f == set_fetch(self, dev, value)
    IN  /\ pend[t].pc = "idle"
        /\ calls' = calls \o [i \in 1..Len(f.calls) |-> [by |-> t, request |-> f.calls[i]]]
        /\ pend' = [pend EXCEPT ![t] =
                      IF f.outcome.kind = "raise"
                      THEN [pc |-> "done", self |-> self, value |-> value,
                            values |-> f.values, outcome |-> f.outcome]
                      ELSE [pc |-> "fetched", self |-> self, value |-> value,
                            values |-> f.values, outcome |-> NoOutcome]]
        /\ UNCHANGED <<display, dev, before, op, outcome, nsets>>

Write(t) ==
    LET w == set_write(pend[t].self, dev, pend[t].values)
    IN  /\ pend[t].pc = "fetched"
        /\ dev' = w.obj
        /\ calls' = calls \o [i \in 1..Len(w.calls) |-> [by |-> t, request |-> w.calls[i]]]
        /\ pend' = [pend EXCEPT ![t].pc = "done", ![t].outcome = w.outcome]
        /\ UNCHANGED <<display, before, op, outcome, nsets>>

NextConc ==
    \/ \E t \in Threads, self \in Touchpad :
          \E value \in DomainInputs(self) : Fetch(t, self, value)
    \/ \E t \in Threads : Write(t)

SpecConc == Init /\ [][NextConc]_vars

\* where in calls thread t made its fetch, and its write
FetchAt(t) == CHOOSE i \in 1..Len(calls) : calls[i].by = t /\ calls[i].request.req = "getitem"
WriteAt(t) == CHOOSE i \in 1..Len(calls) : calls[i].by = t /\ calls[i].request.req # "getitem"
Wrote(t) == pend[t].pc = "done" /\ pend[t].outcome.kind = "return"
RawSet(t) == pend[t].values[pend[t].self.item + 1]

\* two finished sets on different slots of one property, t writing first
SameProperty(t, u) ==
    /\ t # u /\ Wrote(t) /\ Wrote(u)
    /\ pend[t].self.property_name = pend[u].self.property_name
    /\ pend[t].self.item # pend[u].self.item
    /\ WriteAt(t) < WriteAt(u)

\* C10: of two sets on different slots of one property whose fetches both
\* come before either write, the later write puts back the whole sequence
\* its caller fetched: the other slot holds again the value from before the
\* sets, and the earlier writer's value is gone.  When the first set ends
\* before the second fetches, both slots hold the values set.
C10_LostUpdate ==
    \A t, u \in Threads :
        SameProperty(t, u) =>
            LET name == pend[t].self.property_name
                it   == pend[t].self.item + 1
                iu   == pend[u].self.item + 1
            IN  /\ dev[name] = pend[u].values
                /\ dev[name][iu] = RawSet(u)
                /\ FetchAt(u) < WriteAt(t) => dev[name][it] = before[name][it]
                /\ WriteAt(t) < FetchAt(u) => dev[name][it] = RawSet(t)

\* an interleaving in which the earlier writer's value is lost
C10_Witness ==
    \E t, u \in Threads :
        /\ SameProperty(t, u)
        /\ FetchAt(u) < WriteAt(t)
        /\ dev[pend[t].self.property_name][pend[t].self.item + 1] # RawSet(t)

(***************************************************************************)
(* Discovery.  A display lists its input devices in order; each device has *)
(* an id and the names of the properties it exposes.                       *)
(***************************************************************************)
\* InputDevice.find_devices_with_property: the devices exposing the
\* property, in the order of the display
find_devices_with_property(d, name) ==
    SelectSeq(d, LAMBDA device : name \in device.properties)

find_all(d) == find_devices_with_property(d, "Synaptics Off")

\* A faulty variant: the last touchpad found is returned
find_first_last(d) ==
    LET found == find_all(d)
    IN  IF found = << >> THEN Raise("NoTouchpadError") ELSE Return(found[Len(found)])

\* next(find_all(display), None), and NoTouchpadError for None
find_first(d) ==
    LET found == find_all(d)
    IN  IF found = << >> THEN Raise("NoTouchpadError") ELSE Return(Head(found))

\* what a device may expose: a touchpad, a mouse, and a device with
\* Synaptics properties but not 'Synaptics Off'
DeviceKinds ==
    { PropertyNames \cup {"Device Enabled"},
      {"Device Enabled", "Evdev Wheel Emulation"},
      {"Device Enabled", CapabilitiesName} }

MaxDevices == 4

Displays ==
    UNION { { [i \in 1..n |-> [id |-> i, properties |-> kinds[i]]] :
                kinds \in [1..n -> DeviceKinds] } : n \in 0..MaxDevices }

InitFind ==
    /\ display \in Displays
    /\ dev = Device(0, 0)
    /\ before = dev
    /\ op = [kind |-> "none"]
    /\ outcome = NoOutcome
    /\ calls = << >>
    /\ nsets = 0
    /\ pend = [t \in Threads |-> Idle]

FindAll ==
    /\ op' = [kind |-> "find_all"]
    /\ outcome' = Return(find_all(display))
    /\ UNCHANGED <<display, dev, before, calls, nsets, pend>>

FindFirst ==
    /\ op' = [kind |-> "find_first"]
    /\ outcome' = find_first(display)
    /\ UNCHANGED <<display, dev, before, calls, nsets, pend>>

NextFind == FindAll \/ FindFirst

SpecFind == InitFind /\ [][NextFind]_vars

\* the positions of the devices exposing 'Synaptics Off'
TouchpadsAt == {i \in 1..Len(display) : "Synaptics Off" \in display[i].properties}

\* C3: find_first raises NoTouchpadError when no device of the display
\* exposes 'Synaptics Off', and otherwise returns the first such device in
\* the display's order; find_all gives exactly those devices, in that order.
C3_FindFirst ==
    /\ op.kind = "find_first" =>
          IF TouchpadsAt = {} THEN outcome = Raise("NoTouchpadError")
          ELSE /\ outcome.kind = "return"
               /\ \E i \in TouchpadsAt :
                     /\ outcome.val = display[i]
                     /\ \A j \in TouchpadsAt : i <= j
    /\ op.kind = "find_all" =>
          /\ {outcome.val[k].id : k \in 1..Len(outcome.val)} = TouchpadsAt
          /\ \A k \in 1..Len(outcome.val) :
                /\ outcome.val[k] = display[outcome.val[k].id]
                /\ \A l \in 1..Len(outcome.val) :
                      k < l => outcome.val[k].id < outcome.val[l].id

\* find_first on a display with several touchpads, the first device none
C3_Witness ==
    /\ op.kind = "find_first"
    /\ Cardinality(TouchpadsAt) >= 2
    /\ 1 \notin TouchpadsAt
    /\ outcome.kind = "return"

(***************************************************************************)
(* The views derived from 'Synaptics Capabilities'.                        *)
(***************************************************************************)
\* seq[lo:hi] of Python, on a 1-based sequence
PySlice(seq, lo, hi) == SubSeq(seq, lo + 1, Min(hi, Len(seq)))

RECURSIVE PySum(_, _)
PySum(seq, start) ==
    IF seq = << >> THEN start
    ELSE PySum(Tail(seq), start + (IF Head(seq) THEN 1 ELSE 0))

capabilities(obj) ==
    LET raw == getitem(obj, CapabilitiesName)
    IN  [i \in 1..Len(raw) |-> raw[i] # 0]

\* A faulty variant: the count starts at 0
finger_detection_from_zero(obj) == PySum(PySlice(capabilities(obj), 3, 5), 0)

finger_detection(obj) == PySum(PySlice(capabilities(obj), 3, 5), 1)

buttons(obj) ==
    LET b == PySlice(capabilities(obj), 0, 3)
    IN  [left |-> b[1], middle |-> b[2], right |-> b[3]]

has_pressure_detection(obj) == capabilities(obj)[5 + 1]

has_finger_width_detection(obj) == capabilities(obj)[6 + 1]

\* A faulty variant: any() for all()
has_two_finger_emulation_any(obj) ==
    LET c == PySlice(capabilities(obj), 5, 7)
    IN  \E i \in 1..Len(c) : c[i]

has_two_finger_emulation(obj) ==
    LET c == PySlice(capabilities(obj), 5, 7)
    IN  \A i \in 1..Len(c) : c[i]

CapabilityRaw == {0, 1, 2}

InitCaps ==
    /\ display = << >>
    /\ \E raw \in [1..CapabilitiesLen -> CapabilityRaw] :
          dev = [Device(0, 0) EXCEPT ![CapabilitiesName] = raw]
    /\ before = dev
    /\ op = [kind |-> "none"]
    /\ outcome = NoOutcome
    /\ calls = << >>
    /\ nsets = 0
    /\ pend = [t \in Threads |-> Idle]

Read(kind, val) ==
    /\ op' = [kind |-> kind]
    /\ outcome' = Return(val)
    /\ calls' = <<GetRequest(CapabilitiesName)>>
    /\ before' = dev
    /\ UNCHANGED <<display, dev, nsets, pend>>

ReadCapabilities == Read("capabilities", capabilities(dev))
ReadFingerDetection == Read("finger_detection", finger_detection(dev))
ReadButtons == Read("buttons", buttons(dev))
ReadHasPressureDetection == Read("has_pressure_detection", has_pressure_detection(dev))
ReadHasFingerWidthDetection ==
    Read("has_finger_width_detection", has_finger_width_detection(dev))
ReadHasTwoFingerEmulation ==
    Read("has_two_finger_emulation", has_two_finger_emulation(dev))

NextCaps ==
    \/ ReadCapabilities
    \/ ReadFingerDetection
    \/ ReadButtons
    \/ ReadHasPressureDetection
    \/ ReadHasFingerWidthDetection
    \/ ReadHasTwoFingerEmulation

SpecCaps == InitCaps /\ [][NextCaps]_vars

\* whether capability index i (from 0) is set in the raw property
Cap(i) == dev[CapabilitiesName][i + 1] # 0

\* C5: finger_detection is 1 plus the number of capability indices among 3
\* and 4 that are set, whatever the other indices hold; so it is in 1..3.
C5_FingerDetection ==
    op.kind = "finger_detection" =>
        /\ outcome.val = 1 + Cardinality({i \in {3, 4} : Cap(i)})
        /\ outcome.val \in 1..3

\* three-finger detection without two-finger detection counts 2
C5_Witness ==
    /\ op.kind = "finger_detection"
    /\ ~Cap(3) /\ Cap(4) /\ Cap(0) /\ ~Cap(5)
    /\ outcome.val = 2

\* C6: has_two_finger_emulation is true exactly when capability indices 5
\* and 6 are both set, whatever indices 0 to 4 hold.
C6_TwoFingerEmulation ==
    op.kind = "has_two_finger_emulation" => (outcome.val <=> (Cap(5) /\ Cap(6)))

\* pressure detection alone, with every other capability but width set
C6_Witness ==
    /\ op.kind = "has_two_finger_emulation"
    /\ Cap(5) /\ ~Cap(6) /\ \A i \in 0..4 : Cap(i)
    /\ outcome.val = FALSE

(***************************************************************************)
(* Construction of a binding.                                              *)
(***************************************************************************)
WireTypes == PROPERTY_TYPES \cup {"string", "Int", "double", "atom", ""}
Items == 0..(CapabilitiesLen - 1)

Construct(property_name, property_type, item) ==
    /\ op' = [kind |-> "device_property", property_name |-> property_name,
              property_type |-> property_type, item |-> item]
    /\ outcome' = device_property_init(property_name, property_type, item)
    /\ UNCHANGED <<display, dev, before, calls, nsets, pend>>

NextCtor ==
    \E property_name \in PropertyNames, property_type \in WireTypes, item \in Items :
        Construct(property_name, property_type, item)

InitCtor == InitFind /\ display = << >>

SpecCtor == InitCtor /\ [][NextCtor]_vars

\* C7: constructing a binding with a wire type other than int, byte, float
\* and bool raises ValueError and gives no binding, with no request made to
\* a device and no device changed; with one of the four it gives the binding.
C7_InvalidWireType ==
    op.kind = "device_property" =>
        /\ calls = << >> /\ dev = before
        /\ IF op.property_type \in {"int", "byte", "float", "bool"}
           THEN /\ outcome.kind = "return"
                /\ outcome.val.property_name = op.property_name
                /\ outcome.val.property_type = op.property_type
                /\ outcome.val.item = op.item
           ELSE outcome = Raise("ValueError")

C7_Witness ==
    /\ op.kind = "device_property"
    /\ op.property_type = "double"
    /\ outcome = Raise("ValueError")

=============================================================================
